---- MODULE Spec2Model ----
(***************************************************************************)
(* A model of levy/__init__.py (pylevy 0.8): the lazily filled table       *)
(* cache, the Catmull-Rom interpolator, the breakpoint lookup of levy,     *)
(* the Parameters wrapper with fit_levy, and the sampler random.           *)
(*                                                                         *)
(* Each part of the program has its own specification over the shared      *)
(* variable list; the variables of the other parts stay at their initial   *)
(* values:                                                                 *)
(*   SpecCache   threads calling _cdf / _pdf / _limits                     *)
(*   SpecInterp  _interpolate, one tap of the 4^D loop per step            *)
(*   SpecLevy    levy: change_par, table index, breakpoint lookup          *)
(*   SpecFit     fit_levy with Parameters, the minimizer as environment    *)
(*   FairSpecFit SpecFit with weak fairness (a running call keeps running) *)
(*   SpecRandom  two calls of random that consume the same draws           *)
(*                                                                         *)
(* Numbers.  Python floats are modelled by exact fixed point integers.     *)
(* Parameters are counted in micro units (1e-6).  TLC integers are 32 bit, *)
(* so the values handled by Parameters / _reflect (bounds up to 1e10) are  *)
(* two-limb numbers, see Num below.                                        *)
(***************************************************************************)
EXTENDS Integers, Sequences, FiniteSets, TLC

VARIABLES
    \* ---- table cache (lines 63-87)
    data_cache,   \* _data_cache: key -> array object id, NoObj when absent
    tpc,          \* per thread: position inside the accessor
    tkey,         \* per thread: the table the accessor is for
    tloaded,      \* per thread: the array np.load returned
    tcalls,       \* per thread: accessor calls started
    nextObj,      \* next fresh array object id
    loads,        \* key -> number of np.load calls made
    writes,       \* key -> number of assignments to _data_cache[key]
    returned,     \* key -> set of array objects handed to callers
    \* ---- _interpolate (lines 101-135)
    ipc,          \* "idle", "tap" (inside the loop over i), "done", "IndexError"
    ipoint,       \* the query point, one coordinate per axis
    itap,         \* the loop variable i of line 124 (number of taps done)
    iidx,         \* per axis: the clamped index the last tap used
    ioffset,      \* ravel_offset of the last tap
    iresult,      \* result, in units of 1 / IScale
    \* ---- levy (lines 303-348)
    lpc,          \* "idle", "tables", "index", "lookup", "partition", "returned", "IndexError"
    largs,        \* the arguments x, alpha, beta, mu, sigma, cdf, par
    lloc,         \* loc
    lidx,         \* <<alpha_index, beta_index>>
    ll,           \* l, the breakpoint read from limits
    lres,         \* the value returned
    \* ---- random (lines 408-440): two calls made one after the other, the
    \* generator seeded alike before each, so both consume the same draws
    rstream,      \* the draws the seed yields: z (standard normal), r1, r2 (uniform)
    rpc,          \* per call: "idle", "branch", "returned"
    rargs,        \* per call: alpha, beta, mu, sigma, par
    rloc,         \* per call: loc
    rres,         \* per call: the value returned
    \* ---- fit_levy and Parameters (lines 138-167, 360-405)
    fpc,          \* position inside fit_levy
    fargs,        \* the arguments alpha, beta, mu, sigma (NoneNum when not given), par
    f_x,          \* parameters._x
    fvariables,   \* parameters.variables, slots counted from 1
    ffixed,       \* parameters.fixed
    ffixed_values, \* parameters.fixed_values
    fvalue,       \* value.x, the vector the minimizer returned
    fj,           \* the position j of the setter's loop
    fcur,         \* x inside _reflect
    fminimized,   \* optimize.minimize has been entered
    fevals,       \* calls of neglog_density so far
    fresult       \* the tuple fit_levy returns

cacheVars == <<data_cache, tpc, tkey, tloaded, tcalls, nextObj, loads, writes, returned>>

interpVars == <<ipc, ipoint, itap, iidx, ioffset, iresult>>

levyVars == <<lpc, largs, lloc, lidx, ll, lres>>

randomVars == <<rstream, rpc, rargs, rloc, rres>>

fitVars == <<fpc, fargs, f_x, fvariables, ffixed, ffixed_values, fvalue, fj, fcur,
             fminimized, fevals, fresult>>

vars == <<cacheVars, interpVars, levyVars, randomVars, fitVars>>

None == "None"

(***************************************************************************)
(* Table cache: _cdf, _pdf, _limits (lines 63-87).  The three accessors    *)
(* have the same body, with the key and the file name changed.             *)
(***************************************************************************)
NumThreads == 2
MaxCalls == 2

Threads == 1..NumThreads
Keys == {"cdf", "pdf", "limits"}
NoObj == 0


\* A thread enters _cdf(), _pdf() or _limits().
AccessorCall(t, k) ==
    /\ tpc[t] = "idle"
    /\ tcalls[t] < MaxCalls
    /\ tpc' = [tpc EXCEPT ![t] = "try"]
    /\ tkey' = [tkey EXCEPT ![t] = k]
    /\ tcalls' = [tcalls EXCEPT ![t] = @ + 1]
    /\ UNCHANGED <<data_cache, tloaded, nextObj, loads, writes, returned>>
    /\ UNCHANGED <<interpVars, levyVars, randomVars, fitVars>>

\* try: return _data_cache[key]        (the entry is there)
AccessorHit(t) ==
    /\ tpc[t] = "try"
    /\ data_cache[tkey[t]] # NoObj
    /\ returned' = [returned EXCEPT ![tkey[t]] = @ \cup {data_cache[tkey[t]]}]
    /\ tpc' = [tpc EXCEPT ![t] = "idle"]
    /\ UNCHANGED <<data_cache, tkey, tloaded, tcalls, nextObj, loads, writes>>
    /\ UNCHANGED <<interpVars, levyVars, randomVars, fitVars>>

\* try: _data_cache[key] raises KeyError; control moves to the except block
AccessorMiss(t) ==
    /\ tpc[t] = "try"
    /\ data_cache[tkey[t]] = NoObj
    /\ tpc' = [tpc EXCEPT ![t] = "load"]
    /\ UNCHANGED <<data_cache, tkey, tloaded, tcalls, nextObj, loads, writes, returned>>
    /\ UNCHANGED <<interpVars, levyVars, randomVars, fitVars>>

\* np.load(os.path.join(ROOT, key + '.npz'))['arr_0']: a fresh array object
AccessorLoad(t) ==
    /\ tpc[t] = "load"
    /\ tloaded' = [tloaded EXCEPT ![t] = nextObj]
    /\ nextObj' = nextObj + 1
    /\ loads' = [loads EXCEPT ![tkey[t]] = @ + 1]
    /\ tpc' = [tpc EXCEPT ![t] = "store"]
    /\ UNCHANGED <<data_cache, tkey, tcalls, writes, returned>>
    /\ UNCHANGED <<interpVars, levyVars, randomVars, fitVars>>

\* _data_cache[key] = <the loaded array>
AccessorStore(t) ==
    /\ tpc[t] = "store"
    /\ data_cache' = [data_cache EXCEPT ![tkey[t]] = tloaded[t]]
    /\ writes' = [writes EXCEPT ![tkey[t]] = @ + 1]
    /\ tpc' = [tpc EXCEPT ![t] = "reread"]
    /\ UNCHANGED <<tkey, tloaded, tcalls, nextObj, loads, returned>>
    /\ UNCHANGED <<interpVars, levyVars, randomVars, fitVars>>

\* return _data_cache[key]             (read again after the store)
AccessorReturn(t) ==
    /\ tpc[t] = "reread"
    /\ returned' = [returned EXCEPT ![tkey[t]] = @ \cup {data_cache[tkey[t]]}]
    /\ tpc' = [tpc EXCEPT ![t] = "idle"]
    /\ UNCHANGED <<data_cache, tkey, tloaded, tcalls, nextObj, loads, writes>>
    /\ UNCHANGED <<interpVars, levyVars, randomVars, fitVars>>

CacheNext ==
    \/ \E t \in Threads, k \in Keys : AccessorCall(t, k)
    \/ \E t \in Threads : AccessorHit(t)
    \/ \E t \in Threads : AccessorMiss(t)
    \/ \E t \in Threads : AccessorLoad(t)
    \/ \E t \in Threads : AccessorStore(t)
    \/ \E t \in Threads : AccessorReturn(t)


\* C5: each table is loaded from disk at most once, its cache entry is
\* assigned at most once, and all callers of one accessor get the same array
\* object, also when threads call the accessors concurrently.
CacheLoadedOnce ==
    \A k \in Keys :
        /\ loads[k] <= 1
        /\ writes[k] <= 1
        /\ Cardinality(returned[k]) <= 1


(***************************************************************************)
(* _interpolate (lines 101-135).  Coordinates are integers; one grid cell  *)
(* is SubSteps coordinate units wide on every axis, so that                *)
(* (grid_shape - 1) / (upper - lower) = 1 / SubSteps and the fractional    *)
(* offset of a point is a multiple of 1 / SubSteps.  A weight is kept as   *)
(* an integer multiple of 1 / WUnit.                                       *)
(***************************************************************************)
N0 == 2
N1 == 3
N2 == 2
SubSteps == 2
Margin == 3

grid_shape == <<N0, N1, N2>>
dims == Len(grid_shape)
Axes == 1..dims
ilower == <<-3, 0, 2>>
iupper == [j \in Axes |-> ilower[j] + (grid_shape[j] - 1) * SubSteps]

RECURSIVE Pow(_, _)
Pow(b, e) == IF e = 0 THEN 1 ELSE b * Pow(b, e - 1)

RECURSIVE ProdShape(_)
ProdShape(j) == IF j = 0 THEN 1 ELSE grid_shape[j] * ProdShape(j - 1)

GridSize == ProdShape(dims)
WUnit == 2 * SubSteps * SubSteps * SubSteps
IScale == Pow(WUnit, dims)

\* np.ravel(grid): the stored samples by flat index (the tables themselves are
\* data files; any fixed contents serve)
ravel_grid(flat) == ((flat * 37 + 11) % 23) - 7

\* np.take(ravel_grid, i), mode 'raise': a negative index counts from the end,
\* an index outside [-size, size) raises IndexError
TakeOK(flat) == flat >= -GridSize /\ flat < GridSize
Take(flat) == IF flat >= 0 THEN ravel_grid(flat) ELSE ravel_grid(flat + GridSize)

\* line 109: floors = np.floor(points).astype('int'), points in index space
Floors(p, j) == (p[j] - ilower[j]) \div SubSteps
\* line 111: offsets = points - floors, as a numerator over SubSteps
Offsets(p, j) == (p[j] - ilower[j]) % SubSteps

\* lines 114-119: weighters[n] at offset a / SubSteps, times WUnit
WeighterBadCentre(n, a) ==
    LET q == SubSteps IN
    CASE n = 0 -> -(a * a * a) + 2 * a * a * q - a * q * q
      [] n = 1 -> 3 * a * a * a - 5 * a * a * q + q * q * q
      [] n = 2 -> -3 * a * a * a + 4 * a * a * q + a * q * q
      [] n = 3 -> a * a * a - a * a * q
Weighter(n, a) ==
    LET q == SubSteps IN
    CASE n = 0 -> -(a * a * a) + 2 * a * a * q - a * q * q
      [] n = 1 -> 3 * a * a * a - 5 * a * a * q + 2 * q * q * q
      [] n = 2 -> -3 * a * a * a + 4 * a * a * q + a * q * q
      [] n = 3 -> a * a * a - a * a * q

Max(a, b) == IF a >= b THEN a ELSE b
Min(a, b) == IF a <= b THEN a ELSE b

\* line 130: np.maximum(0, np.minimum(grid_shape[j] - 1, floors[:, j] + (n - 1)))
ClampIndexNoFloor(size_j, v) == Min(size_j - 1, v)
ClampIndex(size_j, v) == Max(0, Min(size_j - 1, v))

\* line 128: n = (i >> (j * 2)) % 4, j counted from 0
TapN(i, j) == (i \div Pow(4, j - 1)) % 4

TapIndex(p, i, j) == ClampIndex(grid_shape[j], Floors(p, j) + (TapN(i, j) - 1))

\* lines 126-131: the inner loop over j
RECURSIVE RavelOffset(_, _, _)
RavelOffset(p, i, j) ==
    IF j = 0 THEN 0
    ELSE RavelOffset(p, i, j - 1) * grid_shape[j] + TapIndex(p, i, j)

RECURSIVE TapWeight(_, _, _)
TapWeight(p, i, j) ==
    IF j = 0 THEN 1
    ELSE TapWeight(p, i, j - 1) * Weighter(TapN(i, j), Offsets(p, j))

NumTaps == Pow(4, dims)

\* the coordinates tried on axis j: from Margin below the lower bound to
\* Margin above the upper bound
QueryCoords(j) == (ilower[j] - Margin)..(iupper[j] + Margin)


\* lines 103-123: the point is mapped to index space, result = 0
InterpolateCall ==
    /\ ipc = "idle"
    /\ \E c1 \in QueryCoords(1), c2 \in QueryCoords(2), c3 \in QueryCoords(3) :
          ipoint' = <<c1, c2, c3>>
    /\ ipc' = "tap"
    /\ itap' = 0
    /\ iresult' = 0
    /\ UNCHANGED <<iidx, ioffset>>
    /\ UNCHANGED <<cacheVars, levyVars, randomVars, fitVars>>

\* lines 124-133: one pass of the loop over i; np.take finds the sample, or
\* raises IndexError for an index outside the raveled grid
InterpolateTap ==
    /\ ipc = "tap"
    /\ itap < NumTaps
    /\ iidx' = [j \in Axes |-> TapIndex(ipoint, itap, j)]
    /\ ioffset' = RavelOffset(ipoint, itap, dims)
    /\ IF TakeOK(RavelOffset(ipoint, itap, dims))
       THEN /\ iresult' = iresult + TapWeight(ipoint, itap, dims)
                                      * Take(RavelOffset(ipoint, itap, dims))
            /\ itap' = itap + 1
            /\ UNCHANGED ipc
       ELSE /\ ipc' = "IndexError"
            /\ UNCHANGED <<itap, iresult>>
    /\ UNCHANGED ipoint
    /\ UNCHANGED <<cacheVars, levyVars, randomVars, fitVars>>

\* line 135: return np.reshape(result, point_shape)
InterpolateReturn ==
    /\ ipc = "tap"
    /\ itap = NumTaps
    /\ ipc' = "done"
    /\ UNCHANGED <<ipoint, itap, iidx, ioffset, iresult>>
    /\ UNCHANGED <<cacheVars, levyVars, randomVars, fitVars>>

InterpNext ==
    \/ InterpolateCall
    \/ InterpolateTap
    \/ InterpolateReturn

\* The point is the exact coordinate of a grid node.
IsNode(p) ==
    \A j \in Axes : /\ (p[j] - ilower[j]) % SubSteps = 0
                     /\ p[j] >= ilower[j] /\ p[j] <= iupper[j]
\* The multi-index of the node at p and its flat index in the raveled grid.
NodeIndex(p, j) == (p[j] - ilower[j]) \div SubSteps
RECURSIVE FlatOf(_, _)
FlatOf(p, j) == IF j = 0 THEN 0 ELSE FlatOf(p, j - 1) * grid_shape[j] + NodeIndex(p, j)

\* C6: every tap of _interpolate, for query points inside and outside the
\* grid's bounds, uses a per-axis index within [0, axisSize - 1] and passes a
\* flat index within [0, product(gridShape) - 1] to np.take; np.take never
\* fails and never wraps a negative index.
InterpIndicesInRange ==
    /\ ipc # "IndexError"
    /\ (ipc \in {"tap", "done"} /\ itap > 0) =>
          /\ \A j \in Axes : iidx[j] >= 0 /\ iidx[j] <= grid_shape[j] - 1
          /\ ioffset >= 0 /\ ioffset <= GridSize - 1

\* C6 witness: all 4^D taps were taken for a point below the lower bound on
\* one axis and above the upper bound on another.
InterpOutsideDone ==
    /\ ipc = "done"
    /\ ipoint[1] < ilower[1]
    /\ ipoint[2] > iupper[2]
    /\ itap = NumTaps

\* C7: at the exact coordinate of a grid node (first and last index of an
\* axis included) the offsets are 0, the four weights are (0, 1, 0, 0) and
\* _interpolate returns the stored grid value.
InterpExactAtNodes ==
    (ipc = "done" /\ IsNode(ipoint)) =>
        /\ \A j \in Axes : Offsets(ipoint, j) = 0
        /\ \A j \in Axes : \A n \in 0..3 :
               Weighter(n, Offsets(ipoint, j)) = IF n = 1 THEN WUnit ELSE 0
        /\ iresult = IScale * ravel_grid(FlatOf(ipoint, dims))

\* C7 witness: the call returned for the node with the last index on every axis.
InterpLastNodeDone ==
    /\ ipc = "done"
    /\ ipoint = iupper
    /\ iresult = IScale * ravel_grid(GridSize - 1)

(***************************************************************************)
(* Scalars.  alpha, beta, mu, sigma and x are integers counting micro      *)
(* units; all values used are multiples of 0.001, so MulMicro is exact up  *)
(* to the rounding of the tabulated tangent.                               *)
(***************************************************************************)
Micro == 1000 * 1000
Abs(a) == IF a >= 0 THEN a ELSE -a
MulMicro(a, b) == (a \div 1000) * (b \div 1000)

\* lines 46-48: size, _lower, _upper (position bound pi / 2 * 0.999)
size == <<200, 76, 101>>
lower_ == <<-1569225, 500000, -1000000>>
upper_ == <<1569225, 2000000, 1000000>>

\* line 172: np.tan(np.pi * alpha / 2.0), to three decimals, at the values
\* of alpha the specifications use
TanHalfPi(alpha) ==
    CASE alpha = -1110000 -> 5730000
      [] alpha = -910000 -> -7026000
      [] alpha = 410000 -> 751000
      [] alpha = 460000 -> 882000
      [] alpha = 481000 -> 942000
      [] alpha = 490000 -> 969000
      [] alpha = 500000 -> 1000000
      [] alpha = 519000 -> 1062000
      [] alpha = 520000 -> 1065000
      [] alpha = 530000 -> 1099000
      [] alpha = 580000 -> 1289000
      [] alpha = 1500000 -> -1000000
      [] alpha = 1990000 -> -16000
      [] alpha = 2000000 -> 0
      [] alpha = 2010000 -> 16000
      [] alpha = 2019000 -> 30000
      [] alpha = 2020000 -> 31000
      [] alpha = 2500000 -> 1000000

\* lines 170-172
phi_(alpha, beta) == MulMicro(beta, TanHalfPi(alpha))

\* lines 289-300
change_par(alpha, beta, mu, sigma, par_input, par_output) ==
    IF par_input = par_output THEN mu
    ELSE IF par_input = 0 /\ par_output = 1
         THEN mu - MulMicro(sigma, phi_(alpha, beta))
    ELSE IF par_input = 1 /\ par_output = 0
         THEN mu + MulMicro(sigma, phi_(alpha, beta))
    ELSE None

(***************************************************************************)
(* levy (lines 303-348)                                                    *)
(***************************************************************************)
\* q = num / den, den > 0, rounded to the nearest integer (halves away from
\* zero): the index of the closest grid value
RoundNearest(num, den) ==
    IF 2 * num >= 0 THEN (2 * num + den) \div (2 * den)
    ELSE -((-(2 * num) + den) \div (2 * den))
\* int(q) for q = num / den, den > 0: Python truncates toward zero
Trunc(num, den) == IF num >= 0 THEN num \div den ELSE -((-num) \div den)

\* lines 324-325 compute (v - _lower[d]) / (_upper[d] - _lower[d]) * (size[d] - 1)
\* in double precision.  At these values of alpha and of beta (all of them
\* grid values, within [-10, 10]; computed from these lines) the double
\* falls just short of the whole number the exact quotient is, so that int()
\* yields the index one nearer to zero.  Everywhere else in [-10, 10] int()
\* of the double is the truncated exact quotient.
FloatShortAlpha ==
    { -9680000, -9620000, -9540000, -9440000, -9340000, -9280000, -9200000,
      -9100000, -9040000, -8860000, -8760000, -8700000, -8620000, -8520000,
      -8280000, -8180000, -8120000, -8040000, -7880000, -7840000, -7720000,
      -7700000, -7600000, -7560000, -7540000, -7260000, -7140000, -7020000,
      -6800000, -6680000, -6560000, -6340000, -6220000, -6100000, -5760000,
      -5640000, -5520000, -5100000, -4560000, -4520000, -4420000, -4300000,
      -4180000, -4100000, -4060000, -3940000, -3860000, -3840000, -3780000,
      -3600000, -3520000, -3380000, -3320000, -3260000, -2920000, -2860000,
      -2800000, -2300000, -1960000, -1900000, -1840000, -1800000, -1720000,
      -1680000, -1640000, -1440000, -1380000, -1180000, -900000, -840000,
      -820000, -700000, -440000, -200000, -100000, 80000, 200000, 280000,
      340000, 400000, 460000, 580000, 600000, 700000, 720000, 820000, 940000,
      1140000, 1160000, 1200000, 1380000, 1440000, 1640000, 1700000, 1900000,
      2260000, 2280000, 2320000, 2380000, 2440000, 2780000, 2800000, 2840000,
      2900000, 2960000, 3300000, 3800000, 3860000, 3920000, 4020000, 4060000,
      4140000, 4260000, 4380000, 4520000, 4600000, 4640000, 4720000, 4840000,
      5060000, 5100000, 5180000, 5300000, 5420000, 5520000, 5560000, 6100000,
      6520000, 6640000, 6760000, 7100000, 7220000, 7340000, 7560000, 7680000,
      7800000, 8020000, 8120000, 8200000, 8260000, 8360000, 8540000, 8600000,
      8700000, 8780000, 8840000, 8940000, 9040000, 9120000, 9180000, 9280000,
      9520000, 9620000, 9700000, 9760000, 9860000 }
FloatShortBeta ==
    { -9780000, -9700000, -9620000, -9540000, -9280000, -9200000, -9120000,
      -9040000, -8780000, -8700000, -8620000, -8540000, -8280000, -8200000,
      -8120000, -8040000, -6100000, -6060000, -6020000, -5640000, -5600000,
      -5560000, -5520000, -5140000, -5100000, -5060000, -5020000, -4640000,
      -4600000, -4560000, -4520000, -4140000, -4100000, -4060000, -4020000,
      -3320000, -3300000, -3280000, -3260000, -2820000, -2800000, -2780000,
      -2760000, -2320000, -2300000, -2280000, -2260000, -1900000, -1880000,
      -1660000, -1640000, -1440000, -1420000, -1400000, -1380000, -1220000,
      -1200000, -1180000, -1160000, -1140000, -920000, -900000, -800000,
      -780000, -680000, -560000, -340000, 160000, 820000, 1140000, 1180000,
      1220000, 1260000, 1300000, 1640000, 3020000, 3100000, 3280000, 3360000,
      3440000, 3520000, 3600000, 3780000, 3860000, 3940000, 4020000, 4060000,
      4100000, 7040000, 7060000, 7200000, 7220000, 7380000, 7540000, 7560000,
      7700000, 7720000, 7880000, 8040000, 8120000, 8200000, 8280000, 8540000,
      8620000, 8700000, 8780000, 9040000, 9120000, 9200000 }
FloatShort(v, d) == IF d = 2 THEN v \in FloatShortAlpha ELSE v \in FloatShortBeta

\* lines 324-325: int((v - _lower[d]) / (_upper[d] - _lower[d]) * (size[d] - 1)),
\* d = 2 for alpha and d = 3 for beta (1-based)
TableIndexRounded(v, d) ==
    RoundNearest((v - lower_[d]) * (size[d] - 1), upper_[d] - lower_[d])
TableIndex(v, d) ==
    LET q == Trunc((v - lower_[d]) * (size[d] - 1), upper_[d] - lower_[d])
    IN  IF FloatShort(v, d) THEN (IF q > 0 THEN q - 1 ELSE q + 1) ELSE q

\* limits: the breakpoint table of shape size[1:], standardized x between 10 and 500
limits_table(i, j) == 10 * Micro + ((i * 7 + j * 3) % 49) * 10 * Micro

\* line 327: limits[alpha_index, beta_index]; a negative index counts from the
\* end of its axis, an index outside [-n, n) raises IndexError
IndexOK(i, n) == i >= -n /\ i < n
WrapIndex(i, n) == IF i >= 0 THEN i ELSE i + n
LimitsLookupOK(ai, bi) == IndexOK(ai, size[2]) /\ IndexOK(bi, size[3])
LimitsLookup(ai, bi) == limits_table(WrapIndex(ai, size[2]), WrapIndex(bi, size[3]))

AlphaInputs == {-1110000, -910000, 410000, 460000, 481000, 490000, 500000, 519000, 520000,
                530000, 580000, 1500000, 1990000, 2000000, 2010000, 2019000, 2020000, 2500000}
BetaInputs == {-3100000, -1500000, -1010000, -1000000, -981000, -980000, -920000, 0,
               19000,
               1000000, 1010000, 1020000}
XInputs == {5 * Micro, 1000 * Micro}
MuInputs == {0, Micro}
SigmaInputs == {Micro, 2 * Micro}


\* one sequential call of an accessor: the cache after it
CacheAfter(cache, k, obj) == IF cache[k] = NoObj THEN [cache EXCEPT ![k] = obj] ELSE cache
MissCount(cache, k) == IF cache[k] = NoObj THEN 1 ELSE 0

\* line 318: levy is entered, loc = change_par(alpha, beta, mu, sigma, par, 0)
LevyCall ==
    /\ lpc = "idle"
    /\ \E x \in XInputs, alpha \in AlphaInputs, beta \in BetaInputs, mu \in MuInputs,
          sigma \in SigmaInputs, cdf \in BOOLEAN, par \in {0, 1} :
          /\ largs' = [x |-> x, alpha |-> alpha, beta |-> beta, mu |-> mu,
                       sigma |-> sigma, cdf |-> cdf, par |-> par]
          /\ lloc' = change_par(alpha, beta, mu, sigma, par, 0)
    /\ lpc' = "tables"
    /\ lres' = None
    /\ UNCHANGED <<lidx, ll, cacheVars>>
    /\ UNCHANGED <<interpVars, randomVars, fitVars>>

\* lines 320-321: what = _cdf() if cdf else _pdf(); limits = _limits(), called
\* one after the other by one thread
TablesEffect(cdf) ==
    /\ LET k == IF cdf THEN "cdf" ELSE "pdf"
           c1 == CacheAfter(data_cache, k, nextObj)
           n1 == nextObj + MissCount(data_cache, k)
           c2 == CacheAfter(c1, "limits", n1)
           n2 == n1 + MissCount(c1, "limits")
       IN /\ data_cache' = c2
          /\ nextObj' = n2
          /\ loads' = [loads EXCEPT ![k] = @ + MissCount(data_cache, k),
                                    !["limits"] = @ + MissCount(c1, "limits")]
          /\ writes' = [writes EXCEPT ![k] = @ + MissCount(data_cache, k),
                                      !["limits"] = @ + MissCount(c1, "limits")]
          /\ returned' = [returned EXCEPT ![k] = @ \cup {c2[k]},
                                          !["limits"] = @ \cup {c2["limits"]}]
    /\ UNCHANGED <<tpc, tkey, tloaded, tcalls>>

LevyTables ==
    /\ lpc = "tables"
    /\ TablesEffect(largs.cdf)
    /\ lpc' = "index"
    /\ UNCHANGED <<largs, lloc, lidx, ll, lres>>
    /\ UNCHANGED <<interpVars, randomVars, fitVars>>

\* lines 323-325: xr, alpha_index, beta_index
LevyIndex ==
    /\ lpc = "index"
    /\ lidx' = <<TableIndex(largs.alpha, 2), TableIndex(largs.beta, 3)>>
    /\ lpc' = "lookup"
    /\ UNCHANGED <<largs, lloc, ll, lres, cacheVars>>
    /\ UNCHANGED <<interpVars, randomVars, fitVars>>

\* line 327: l = limits[alpha_index, beta_index]
LevyLookup ==
    /\ lpc = "lookup"
    /\ LimitsLookupOK(lidx[1], lidx[2])
    /\ ll' = LimitsLookup(lidx[1], lidx[2])
    /\ lpc' = "partition"
    /\ UNCHANGED <<largs, lloc, lidx, lres, cacheVars>>
    /\ UNCHANGED <<interpVars, randomVars, fitVars>>

\* lines 328-331: IndexError, the values are printed and the error is raised again
LevyLookupFails ==
    /\ lpc = "lookup"
    /\ ~LimitsLookupOK(lidx[1], lidx[2])
    /\ lpc' = "IndexError"
    /\ UNCHANGED <<largs, lloc, lidx, ll, lres, cacheVars>>
    /\ UNCHANGED <<interpVars, randomVars, fitVars>>

\* lines 332-348: mask = |xr| < l with xr = (x - loc) / sigma; the point is
\* interpolated from the table when the mask holds and taken from the tail
\* formula otherwise; a density is divided by sigma.  The value is kept as the
\* term that names how it was computed.
LevyReturn ==
    /\ lpc = "partition"
    /\ lres' = [route |-> IF Abs(largs.x - lloc) < MulMicro(ll, Abs(largs.sigma))
                          THEN "interpolated" ELSE "approximated",
                what |-> IF largs.cdf THEN "cdf" ELSE "pdf",
                over_sigma |-> ~largs.cdf,
                breakpoint |-> ll]
    /\ lpc' = "returned"
    /\ UNCHANGED <<largs, lloc, lidx, ll, cacheVars>>
    /\ UNCHANGED <<interpVars, randomVars, fitVars>>

\* the caller has the value or the error; the next call can begin
LevyLeave ==
    /\ lpc \in {"returned", "IndexError"}
    /\ lpc' = "idle"
    /\ largs' = [x |-> 0, alpha |-> 1500000, beta |-> 0, mu |-> 0, sigma |-> Micro,
                 cdf |-> FALSE, par |-> 0]
    /\ lloc' = 0
    /\ lidx' = <<0, 0>>
    /\ ll' = 0
    /\ lres' = None
    /\ UNCHANGED cacheVars
    /\ UNCHANGED <<interpVars, randomVars, fitVars>>

LevyNext ==
    \/ LevyCall
    \/ LevyLeave
    \/ LevyTables
    \/ LevyIndex
    \/ LevyLookup
    \/ LevyLookupFails
    \/ LevyReturn

AlphaInRange(alpha) == alpha >= lower_[2] /\ alpha <= upper_[2]
BetaInRange(beta) == beta >= lower_[3] /\ beta <= upper_[3]

\* C2: levy called with alpha outside [0.5, 2.0] or beta outside [-1, 1] never
\* gets past the breakpoint lookup: it reads no table cell and returns no value.
LevyRejectsOutOfRange ==
    (lpc \in {"partition", "returned"}) =>
        (AlphaInRange(largs.alpha) /\ BetaInRange(largs.beta))

\* the index of the grid value closest to v on axis d (ties go up)
NearestIndex(v, d) == RoundNearest((v - lower_[d]) * (size[d] - 1), upper_[d] - lower_[d])

\* C9 as claimed: for alpha and beta in range the indices are those of the
\* closest grid values of the alpha axis and the beta axis.
LevyNearestCell ==
    (lpc \in {"lookup", "partition", "returned"}
        /\ AlphaInRange(largs.alpha) /\ BetaInRange(largs.beta)) =>
        /\ lidx[1] = NearestIndex(largs.alpha, 2)
        /\ lidx[2] = NearestIndex(largs.beta, 3)

\* index i is the cell at or just below v on axis d: grid value i <= v <=
\* grid value i + 1 (grid value i = lower + i * (upper - lower) / (size - 1)).
\* For v strictly between two grid values i is the lower of the two; for v a
\* grid value i is the index of v or the index before it.
CellBelow(i, v, d) ==
    /\ i >= 0 /\ i <= size[d] - 1
    /\ i * (upper_[d] - lower_[d]) <= (v - lower_[d]) * (size[d] - 1)
    /\ (v - lower_[d]) * (size[d] - 1) <= (i + 1) * (upper_[d] - lower_[d])

\* C9 amended: for alpha and beta in range the lookup succeeds and the indices
\* are the linear index, computed in double precision, truncated: the cell at
\* or just below (alpha, beta), at a grid value that cell or the one before
\* it, never the cell above; and l is the table entry of that cell.
LevyCellBelow ==
    (lpc \in {"lookup", "partition", "returned"}
        /\ AlphaInRange(largs.alpha) /\ BetaInRange(largs.beta)) =>
        /\ CellBelow(lidx[1], largs.alpha, 2)
        /\ CellBelow(lidx[2], largs.beta, 3)
        /\ lpc # "lookup" => ll = limits_table(lidx[1], lidx[2])

\* C9 witness: a value was returned for alpha = 0.519 and beta = 0.019, both
\* nearer to the next grid value (0.52 and 0.02) than to the one below.
LevyUpperHalfReturned ==
    /\ lpc = "returned"
    /\ largs.alpha = 519000 /\ largs.beta = 19000
    /\ lidx = <<0, 50>>

(***************************************************************************)
(* random (lines 408-440)                                                  *)
(***************************************************************************)
\* line 416: np.sqrt(2.0), to three decimals
Sqrt2 == 1414 * 1000

\* lines 420-423: radius = 1e-15 is below the resolution of the model, so
\* |alpha - 1| < radius holds for alpha = 1 only, and 1 + radius is kept as
\* the value next to 1
OnePlusRadius == Micro + 1
Nudged(alpha) == IF alpha = Micro THEN OnePlusRadius ELSE alpha

\* lines 429-438: k for the draws r1, r2, to three decimals, at the values the
\* specification uses (computed from these lines in double precision)
ChambersMallowsStuck(a, b, r1, r2) ==
    CASE a = 500000 /\ b = -1000000 /\ r1 = 250000 /\ r2 = 250000 -> -1463000
      [] a = 500000 /\ b = -1000000 /\ r1 = 250000 /\ r2 = 750000 -> -10868000
      [] a = 500000 /\ b = -1000000 /\ r1 = 750000 /\ r2 = 250000 -> 577000
      [] a = 500000 /\ b = -1000000 /\ r1 = 750000 /\ r2 = 750000 -> -1036000
      [] a = 500000 /\ b = 0 /\ r1 = 250000 /\ r2 = 250000 -> -510000
      [] a = 500000 /\ b = 0 /\ r1 = 250000 /\ r2 = 750000 -> -2458000
      [] a = 500000 /\ b = 0 /\ r1 = 750000 /\ r2 = 250000 -> 510000
      [] a = 500000 /\ b = 0 /\ r1 = 750000 /\ r2 = 750000 -> 2458000
      [] a = 500000 /\ b = 1000000 /\ r1 = 250000 /\ r2 = 250000 -> -577000
      [] a = 500000 /\ b = 1000000 /\ r1 = 250000 /\ r2 = 750000 -> 1036000
      [] a = 500000 /\ b = 1000000 /\ r1 = 750000 /\ r2 = 250000 -> 1463000
      [] a = 500000 /\ b = 1000000 /\ r1 = 750000 /\ r2 = 750000 -> 10868000
      [] a = 1000001 /\ b = 0 /\ r1 = 250000 /\ r2 = 250000 -> -1000000
      [] a = 1000001 /\ b = 0 /\ r1 = 250000 /\ r2 = 750000 -> -1000000
      [] a = 1000001 /\ b = 0 /\ r1 = 750000 /\ r2 = 250000 -> 1000000
      [] a = 1000001 /\ b = 0 /\ r1 = 750000 /\ r2 = 750000 -> 1000000
      [] a = 1500000 /\ b = -1000000 /\ r1 = 250000 /\ r2 = 250000 -> -1695000
      [] a = 1500000 /\ b = -1000000 /\ r1 = 250000 /\ r2 = 750000 -> -1412000
      [] a = 1500000 /\ b = -1000000 /\ r1 = 750000 /\ r2 = 250000 -> 1252000
      [] a = 1500000 /\ b = -1000000 /\ r1 = 750000 /\ r2 = 750000 -> 334000
      [] a = 1500000 /\ b = 0 /\ r1 = 250000 /\ r2 = 250000 -> -1333000
      [] a = 1500000 /\ b = 0 /\ r1 = 250000 /\ r2 = 750000 -> -789000
      [] a = 1500000 /\ b = 0 /\ r1 = 750000 /\ r2 = 250000 -> 1333000
      [] a = 1500000 /\ b = 0 /\ r1 = 750000 /\ r2 = 750000 -> 789000
      [] a = 1500000 /\ b = 1000000 /\ r1 = 250000 /\ r2 = 250000 -> -1252000
      [] a = 1500000 /\ b = 1000000 /\ r1 = 250000 /\ r2 = 750000 -> -334000
      [] a = 1500000 /\ b = 1000000 /\ r1 = 750000 /\ r2 = 250000 -> 1695000
      [] a = 1500000 /\ b = 1000000 /\ r1 = 750000 /\ r2 = 750000 -> 1412000

\* lines 415-440: the value random returns, z the normal draw and r1, r2 the
\* uniform draws
RandomValueShifted(alpha, beta, loc, sigma, z, r1, r2) ==
    IF alpha = 2 * Micro THEN loc + MulMicro(sigma, MulMicro(z, Sqrt2))
    ELSE loc + MulMicro(sigma, ChambersMallowsStuck(Nudged(alpha), beta, r1, r2))
RandomValue(alpha, beta, loc, sigma, z, r1, r2) ==
    IF alpha = 2 * Micro THEN MulMicro(z, Sqrt2)
    ELSE loc + MulMicro(sigma, ChambersMallowsStuck(Nudged(alpha), beta, r1, r2))

Calls == {1, 2}
RandomArgs ==
    { a \in [alpha : {500000, Micro, 1500000, 2 * Micro}, beta : {-Micro, 0, Micro},
             mu : {0, Micro}, sigma : {Micro, 2 * Micro}, par : {0, 1}] :
        \* alpha = 1: tan(pi / 2) is about 1.6e16, outside the integers of the model
        a.alpha = Micro => (a.par = 0 /\ a.beta = 0) }
NoArgs == [alpha |-> 0, beta |-> 0, mu |-> 0, sigma |-> 0, par |-> 0]



\* line 414: random is entered, loc = change_par(alpha, beta, mu, sigma, par, 0)
RandomCall(c) ==
    /\ rpc[c] = "idle"
    /\ \A d \in Calls : d < c => rpc[d] = "returned"
    /\ \E a \in RandomArgs :
          /\ rargs' = [rargs EXCEPT ![c] = a]
          /\ rloc' = [rloc EXCEPT ![c] = change_par(a.alpha, a.beta, a.mu, a.sigma, a.par, 0)]
    /\ rpc' = [rpc EXCEPT ![c] = "branch"]
    /\ UNCHANGED <<rstream, rres>>
    /\ UNCHANGED <<cacheVars, interpVars, levyVars, fitVars>>

\* lines 415-416: alpha == 2, one normal draw is consumed
RandomGaussian(c) ==
    /\ rpc[c] = "branch"
    /\ rargs[c].alpha = 2 * Micro
    /\ rres' = [rres EXCEPT ![c] = RandomValue(rargs[c].alpha, rargs[c].beta, rloc[c],
                                               rargs[c].sigma, rstream.z, rstream.r1, rstream.r2)]
    /\ rpc' = [rpc EXCEPT ![c] = "returned"]
    /\ UNCHANGED <<rstream, rargs, rloc>>
    /\ UNCHANGED <<cacheVars, interpVars, levyVars, fitVars>>

\* lines 418-440: the general path, two uniform draws are consumed
RandomGeneral(c) ==
    /\ rpc[c] = "branch"
    /\ rargs[c].alpha # 2 * Micro
    /\ rres' = [rres EXCEPT ![c] = RandomValue(rargs[c].alpha, rargs[c].beta, rloc[c],
                                               rargs[c].sigma, rstream.z, rstream.r1, rstream.r2)]
    /\ rpc' = [rpc EXCEPT ![c] = "returned"]
    /\ UNCHANGED <<rstream, rargs, rloc>>
    /\ UNCHANGED <<cacheVars, interpVars, levyVars, fitVars>>

RandomNext ==
    \/ \E c \in Calls : RandomCall(c)
    \/ \E c \in Calls : RandomGaussian(c)
    \/ \E c \in Calls : RandomGeneral(c)

\* C10: two calls of random with alpha == 2 that consume the same draws return
\* the same value, sqrt(2) times the normal draw, whatever beta, mu, sigma and
\* par each call was given.
RandomGaussianIgnoresLocScale ==
    (/\ rpc[1] = "returned" /\ rpc[2] = "returned"
     /\ rargs[1].alpha = 2 * Micro /\ rargs[2].alpha = 2 * Micro) =>
        /\ rres[1] = rres[2]
        /\ rres[1] = (rstream.z \div 1000) * 1414

\* C10 witness: both calls returned with alpha == 2 and different beta, mu,
\* sigma and par.
RandomGaussianPairReturned ==
    /\ rpc[1] = "returned" /\ rpc[2] = "returned"
    /\ rargs[1].alpha = 2 * Micro /\ rargs[2].alpha = 2 * Micro
    /\ rargs[1].mu # rargs[2].mu /\ rargs[1].sigma # rargs[2].sigma
    /\ rargs[1].par # rargs[2].par /\ rargs[1].beta # rargs[2].beta
    /\ rstream.z # 0

(***************************************************************************)
(* Numbers of Parameters and _reflect.  The bounds of sigma are 1e-6 and   *)
(* 1e10, so a value is kept in two limbs: hi * Base + lo micro units, with *)
(* 0 <= lo < Base.  A value of kind "huge" is a finite double so large     *)
(* (1e300, say) that adding or subtracting any bound leaves it unchanged   *)
(* in double precision; its hi is its sign.  NoneNum is Python's None.     *)
(***************************************************************************)
Base == 100 * Micro

Num(hi, lo) == [k |-> "fin", hi |-> hi, lo |-> lo]
Huge(sign) == [k |-> "huge", hi |-> sign, lo |-> 0]
NoneNum == [k |-> "none", hi |-> 0, lo |-> 0]
IsNone(v) == v.k = "none"
NumOf(m) == Num(m \div Base, m % Base)
NumNorm(hi, lo) == Num(hi + (lo \div Base), lo % Base)

NumNeg(a) == IF a.k = "huge" THEN Huge(-a.hi) ELSE NumNorm(-a.hi, -a.lo)
NumAdd(a, b) ==
    IF a.k = "huge" THEN a
    ELSE IF b.k = "huge" THEN b
    ELSE NumNorm(a.hi + b.hi, a.lo + b.lo)
NumSub(a, b) == NumAdd(a, NumNeg(b))
NumLess(a, b) ==
    IF a.k = "huge" THEN a.hi < 0
    ELSE IF b.k = "huge" THEN b.hi > 0
    ELSE a.hi < b.hi \/ (a.hi = b.hi /\ a.lo < b.lo)
\* a small value as a plain count of micro units
NumMicro(a) == a.hi * Base + a.lo
IsSmall(a) ==
    IF a.k = "fin" /\ (a.hi = 0 \/ a.hi = -1) THEN Abs(NumMicro(a)) <= 10 * Micro ELSE FALSE
\* a * m for m in micro units; every product the model forms has m a whole
\* number of units or a small
NumMulMicro(a, m) ==
    IF m % Micro = 0
    THEN (IF a.k = "huge"
          THEN (IF m = 0 THEN NumOf(0) ELSE IF m > 0 THEN a ELSE NumNeg(a))
          ELSE NumNorm(a.hi * (m \div Micro), a.lo * (m \div Micro)))
    ELSE NumOf(MulMicro(NumMicro(a), m))

\* line 50: par_bounds, (None, None) for mu
par_bounds == << <<NumOf(lower_[2]), NumOf(upper_[2])>>,
                 <<NumOf(lower_[3]), NumOf(upper_[3])>>,
                 <<NoneNum, NoneNum>>,
                 <<NumOf(1), Num(100 * Micro, 0)>> >>
\* lines 51-53: par_names (slots 1..4) and default
par_names == <<"alpha", "beta", "mu", "sigma">>
default == [alpha |-> NumOf(1500000), beta |-> NumOf(0), mu |-> NumOf(0), sigma |-> NumOf(Micro)]
Slots == 1..4

\* lines 289-300 on the values fit_levy passes: a parameter can be None.
\* _phi multiplies beta and alpha, and its result is multiplied by sigma, so
\* with par_input # par_output a None among them raises TypeError
ChangeParRaises(alpha, beta, mu, sigma, par_input, par_output) ==
    /\ par_input # par_output
    /\ IsNone(alpha) \/ IsNone(beta) \/ IsNone(sigma)
ChangeParNum(alpha, beta, mu, sigma, par_input, par_output) ==
    IF par_input = par_output THEN mu
    ELSE IF par_input = 0 /\ par_output = 1
         THEN NumSub(mu, NumMulMicro(sigma, phi_(NumMicro(alpha), NumMicro(beta))))
    ELSE IF par_input = 1 /\ par_output = 0
         THEN NumAdd(mu, NumMulMicro(sigma, phi_(NumMicro(alpha), NumMicro(beta))))
    ELSE NoneNum

\* lines 145-149: Parameters.__init__
KwargOf(kwargs, i) == kwargs[par_names[i]]
InitX(kwargs) ==
    [i \in Slots |-> IF IsNone(KwargOf(kwargs, i)) THEN default[par_names[i]]
                     ELSE KwargOf(kwargs, i)]
InitVariables(kwargs) == SelectSeq(<<1, 2, 3, 4>>, LAMBDA i : IsNone(KwargOf(kwargs, i)))
InitFixed(kwargs) == SelectSeq(<<1, 2, 3, 4>>, LAMBDA i : ~IsNone(KwargOf(kwargs, i)))
InitFixedValues(kwargs) ==
    [n \in 1..Len(InitFixed(kwargs)) |-> KwargOf(kwargs, InitFixed(kwargs)[n])]

\* lines 157-159: the getter x, self._x[self.variables]
GetX(x, variables) == [j \in 1..Len(variables) |-> x[variables[j]]]

\* line 167: the slot the setter writes at position j of its loop
SetterSlotByPosition(variables, j) == j
SetterSlot(variables, j) == variables[j]

\* lines 394-397 of neglog_density: p[variables] = param, p[fixed] = fixed_values
PositionIn(seq, i) == CHOOSE n \in 1..Len(seq) : seq[n] = i
NeglogPoint(param, variables, fixed, fixed_values) ==
    [i \in Slots |-> IF \E n \in 1..Len(variables) : variables[n] = i
                     THEN param[PositionIn(variables, i)]
                     ELSE IF \E n \in 1..Len(fixed) : fixed[n] = i
                     THEN fixed_values[PositionIn(fixed, i)]
                     ELSE NumOf(0)]

\* line 398 -> levy, lines 324-331: the breakpoint lookup raises IndexError
\* (a value of 10 or more in magnitude is far outside both axes)
NeglogRaises(p) ==
    IF IsSmall(p[1]) /\ IsSmall(p[2])
    THEN ~LimitsLookupOK(TableIndex(NumMicro(p[1]), 2), TableIndex(NumMicro(p[2]), 3))
    ELSE TRUE
\* line 398: the sum of the negative log densities of the data at p, kept as
\* the term that names the point
NeglogValue(p) == [neglog_at |-> p]

(***************************************************************************)
(* fit_levy (lines 360-405).  optimize.minimize is the environment: it     *)
(* evaluates the objective at candidate vectors of the free slots, at most *)
(* MaxProbes times, and then returns any candidate vector as value.x.      *)
(* The bounds passed at line 401 are a request to library code outside the *)
(* repository; the model does not assume they are honoured, as the setter  *)
(* does not (it reflects every value it is given, lines 163-167).          *)
(***************************************************************************)
MaxProbes == 1

FitAlphas == {NoneNum, NumOf(1500000), NumOf(2500000)}
FitBetas == {NoneNum, NumOf(0), NumOf(Micro)}
FitMus == {NoneNum, NumOf(0), NumOf(2 * Micro)}
FitSigmas == {NoneNum, NumOf(2 * Micro)}

\* what the minimizer may propose for each slot: values inside the bounds,
\* outside them, and huge
Candidates ==
    << {NumOf(1500000), NumOf(2010000), NumOf(3500000), Huge(1)},
       {NumOf(0), NumOf(-3 * Micro), Huge(-1)},
       {NumOf(0), NumOf(2 * Micro)},
       {NumOf(Micro), NumOf(-Micro), Num(200 * Micro, 0)} >>

NoArgsFit == [alpha |-> NoneNum, beta |-> NoneNum, mu |-> NoneNum, sigma |-> NoneNum, par |-> 0]
NoResult == [alpha |-> NoneNum, beta |-> NoneNum, mu |-> NoneNum, sigma |-> NoneNum,
             neglog |-> NeglogValue(<<NoneNum, NoneNum, NoneNum, NoneNum>>)]


\* lines 385-386: mu is given and change_par raises TypeError on a None
FitCallRaises ==
    /\ fpc = "idle"
    /\ \E alpha \in FitAlphas, beta \in FitBetas, mu \in FitMus, sigma \in FitSigmas,
          par \in {0, 1} :
          /\ ~IsNone(mu)
          /\ ChangeParRaises(alpha, beta, mu, sigma, par, 0)
          /\ fargs' = [alpha |-> alpha, beta |-> beta, mu |-> mu, sigma |-> sigma, par |-> par]
    /\ fpc' = "TypeError"
    /\ UNCHANGED <<f_x, fvariables, ffixed, ffixed_values, fvalue, fj, fcur, fminimized,
                   fevals, fresult, cacheVars>>
    /\ UNCHANGED <<interpVars, levyVars, randomVars>>

\* lines 385-400: loc, kwargs, parameters = Parameters(**kwargs), bounds
FitCall ==
    /\ fpc = "idle"
    /\ \E alpha \in FitAlphas, beta \in FitBetas, mu \in FitMus, sigma \in FitSigmas,
          par \in {0, 1} :
          /\ IsNone(mu) \/ ~ChangeParRaises(alpha, beta, mu, sigma, par, 0)
          /\ fargs' = [alpha |-> alpha, beta |-> beta, mu |-> mu, sigma |-> sigma, par |-> par]
          /\ LET loc == IF ~IsNone(mu) THEN ChangeParNum(alpha, beta, mu, sigma, par, 0) ELSE mu
                 kwargs == [alpha |-> alpha, beta |-> beta, mu |-> loc, sigma |-> sigma]
             IN /\ f_x' = InitX(kwargs)
                /\ fvariables' = InitVariables(kwargs)
                /\ ffixed' = InitFixed(kwargs)
                /\ ffixed_values' = InitFixedValues(kwargs)
    /\ fpc' = "minimize"
    /\ UNCHANGED <<fvalue, fj, fcur, fminimized, fevals, fresult, cacheVars>>
    /\ UNCHANGED <<interpVars, levyVars, randomVars>>

\* line 401, right side: optimize.minimize(neglog_density, parameters.x, ...) is entered
MinimizeEnter ==
    /\ fpc = "minimize"
    /\ fminimized' = TRUE
    /\ fvalue' = GetX(f_x, fvariables)
    /\ fpc' = "search"
    /\ UNCHANGED <<fargs, f_x, fvariables, ffixed, ffixed_values, fj, fcur, fevals, fresult,
                   cacheVars>>
    /\ UNCHANGED <<interpVars, levyVars, randomVars>>

\* the candidate vectors of the free slots
CandidateVectors(variables) ==
    { GetX(<<a, b, m, s>>, variables) :
        a \in Candidates[1], b \in Candidates[2], m \in Candidates[3], s \in Candidates[4] }

\* the minimizer calls neglog_density(param) and gets a value
MinimizeProbe ==
    /\ fpc = "search"
    /\ fevals < MaxProbes
    /\ \E c \in CandidateVectors(fvariables) :
          ~NeglogRaises(NeglogPoint(c, fvariables, ffixed, ffixed_values))
    /\ fevals' = fevals + 1
    /\ TablesEffect(FALSE)
    /\ UNCHANGED <<fpc, fargs, f_x, fvariables, ffixed, ffixed_values, fvalue, fj, fcur,
                   fminimized, fresult>>
    /\ UNCHANGED <<interpVars, levyVars, randomVars>>

\* the minimizer calls neglog_density(param), levy raises IndexError and the
\* error leaves fit_levy
MinimizeProbeRaises ==
    /\ fpc = "search"
    /\ fevals < MaxProbes
    /\ \E c \in CandidateVectors(fvariables) :
          NeglogRaises(NeglogPoint(c, fvariables, ffixed, ffixed_values))
    /\ fevals' = fevals + 1
    /\ fpc' = "IndexError"
    /\ TablesEffect(FALSE)
    /\ UNCHANGED <<fargs, f_x, fvariables, ffixed, ffixed_values, fvalue, fj, fcur,
                   fminimized, fresult>>
    /\ UNCHANGED <<interpVars, levyVars, randomVars>>

\* the minimizer returns; line 401, left side: the setter x is entered
MinimizeReturn ==
    /\ fpc = "search"
    /\ \E c \in CandidateVectors(fvariables) : fvalue' = c
    /\ fj' = 1
    /\ fpc' = "setter"
    /\ UNCHANGED <<fargs, f_x, fvariables, ffixed, ffixed_values, fcur, fminimized, fevals,
                   fresult, cacheVars>>
    /\ UNCHANGED <<interpVars, levyVars, randomVars>>

\* lines 163-167: the next j of the setter's loop, f_bounds[par_names[i]] is
\* called with value.x[j]; for mu it returns its argument (line 58)
SetterNext ==
    /\ fpc = "setter"
    /\ fj <= Len(fvariables)
    /\ fcur' = fvalue[fj]
    /\ fpc' = IF par_names[fvariables[fj]] = "mu" THEN "store" ELSE "reflect"
    /\ UNCHANGED <<fargs, f_x, fvariables, ffixed, ffixed_values, fvalue, fj, fminimized,
                   fevals, fresult, cacheVars>>
    /\ UNCHANGED <<interpVars, levyVars, randomVars>>

ReflectLower == par_bounds[fvariables[fj]][1]
ReflectUpper == par_bounds[fvariables[fj]][2]

\* lines 93-94: x < lower, x = lower - (x - lower)
ReflectBelow ==
    /\ fpc = "reflect"
    /\ NumLess(fcur, ReflectLower)
    /\ fcur' = NumSub(ReflectLower, NumSub(fcur, ReflectLower))
    /\ UNCHANGED <<fpc, fargs, f_x, fvariables, ffixed, ffixed_values, fvalue, fj, fminimized,
                   fevals, fresult, cacheVars>>
    /\ UNCHANGED <<interpVars, levyVars, randomVars>>

\* lines 95-96: x > upper, x = upper - (x - upper)
ReflectAbove ==
    /\ fpc = "reflect"
    /\ ~NumLess(fcur, ReflectLower)
    /\ NumLess(ReflectUpper, fcur)
    /\ fcur' = NumSub(ReflectUpper, NumSub(fcur, ReflectUpper))
    /\ UNCHANGED <<fpc, fargs, f_x, fvariables, ffixed, ffixed_values, fvalue, fj, fminimized,
                   fevals, fresult, cacheVars>>
    /\ UNCHANGED <<interpVars, levyVars, randomVars>>

\* lines 97-98: return x
ReflectReturn ==
    /\ fpc = "reflect"
    /\ ~NumLess(fcur, ReflectLower)
    /\ ~NumLess(ReflectUpper, fcur)
    /\ fpc' = "store"
    /\ UNCHANGED <<fargs, f_x, fvariables, ffixed, ffixed_values, fvalue, fj, fcur, fminimized,
                   fevals, fresult, cacheVars>>
    /\ UNCHANGED <<interpVars, levyVars, randomVars>>

\* line 167: self._x[i] = <the value f_bounds returned>
SetterStore ==
    /\ fpc = "store"
    /\ f_x' = [f_x EXCEPT ![SetterSlot(fvariables, fj)] = fcur]
    /\ fj' = fj + 1
    /\ fpc' = "setter"
    /\ UNCHANGED <<fargs, fvariables, ffixed, ffixed_values, fvalue, fcur, fminimized, fevals,
                   fresult, cacheVars>>
    /\ UNCHANGED <<interpVars, levyVars, randomVars>>

\* the setter's loop is over
SetterDone ==
    /\ fpc = "setter"
    /\ fj > Len(fvariables)
    /\ fpc' = "final"
    /\ UNCHANGED <<fargs, f_x, fvariables, ffixed, ffixed_values, fvalue, fj, fcur, fminimized,
                   fevals, fresult, cacheVars>>
    /\ UNCHANGED <<interpVars, levyVars, randomVars>>

\* lines 402-405: get_all, mu in the parametrization asked for, and the
\* objective at parameters.x
FitReturn ==
    /\ fpc = "final"
    /\ ~NeglogRaises(NeglogPoint(GetX(f_x, fvariables), fvariables, ffixed, ffixed_values))
    /\ fresult' = [alpha |-> f_x[1], beta |-> f_x[2],
                   mu |-> ChangeParNum(f_x[1], f_x[2], f_x[3], f_x[4], 0, fargs.par),
                   sigma |-> f_x[4],
                   neglog |-> NeglogValue(NeglogPoint(GetX(f_x, fvariables), fvariables,
                                                       ffixed, ffixed_values))]
    /\ fevals' = fevals + 1
    /\ fpc' = "returned"
    /\ TablesEffect(FALSE)
    /\ UNCHANGED <<fargs, f_x, fvariables, ffixed, ffixed_values, fvalue, fj, fcur, fminimized>>
    /\ UNCHANGED <<interpVars, levyVars, randomVars>>

\* line 405: the objective at parameters.x raises IndexError
FitReturnRaises ==
    /\ fpc = "final"
    /\ NeglogRaises(NeglogPoint(GetX(f_x, fvariables), fvariables, ffixed, ffixed_values))
    /\ fevals' = fevals + 1
    /\ fpc' = "IndexError"
    /\ TablesEffect(FALSE)
    /\ UNCHANGED <<fargs, f_x, fvariables, ffixed, ffixed_values, fvalue, fj, fcur, fminimized,
                   fresult>>
    /\ UNCHANGED <<interpVars, levyVars, randomVars>>

FitNext ==
    \/ FitCallRaises
    \/ FitCall
    \/ MinimizeEnter
    \/ MinimizeProbe
    \/ MinimizeProbeRaises
    \/ MinimizeReturn
    \/ SetterNext
    \/ ReflectBelow
    \/ ReflectAbove
    \/ ReflectReturn
    \/ SetterStore
    \/ SetterDone
    \/ FitReturn
    \/ FitReturnRaises

IsFixed(name) == ~IsNone(fargs[name])
AllFixed == \A i \in Slots : IsFixed(par_names[i])

\* C1: once Parameters is built, every slot among alpha, beta, sigma that was
\* given to fit_levy keeps the given value in parameters._x through every
\* setter step, the objective reads it unchanged, and fit_levy returns it
\* exactly (fit_levy(x, beta=0) returns beta == 0), whatever vector the
\* minimizer returns.
FitFixedKept ==
    \A i \in {1, 2, 4} :
        (IsFixed(par_names[i]) /\ fpc \notin {"idle", "TypeError"}) =>
            /\ f_x[i] = fargs[par_names[i]]
            /\ fpc = "returned" =>
                  /\ fresult[par_names[i]] = fargs[par_names[i]]
                  /\ fresult.neglog.neglog_at[i] = fargs[par_names[i]]

\* C1 witness: fit_levy(x, beta=0) returned after the setter stored a new
\* alpha, mu and sigma, and the beta returned is 0.
FitBetaFixedReturned ==
    /\ fpc = "returned"
    /\ fargs.beta = NumOf(0)
    /\ IsNone(fargs.alpha) /\ IsNone(fargs.mu) /\ IsNone(fargs.sigma)
    /\ fresult.beta = NumOf(0)
    /\ fresult.alpha # default.alpha
    /\ fresult.mu # default.mu
    /\ fresult.sigma # default.sigma

\* C3: fit_levy called with mu given and par = 1 never ends in an error,
\* whichever of alpha, beta, sigma are left free, and the mu it returns is the
\* mu it was given.
FitFixedMuPar1Completes ==
    (IsFixed("mu") /\ fargs.par = 1) =>
        /\ fpc # "TypeError"
        /\ fpc = "returned" => fresult.mu = fargs.mu

\* C4: fit_levy called with all four parameters given does not run the
\* minimizer, evaluates the objective once, and returns as fifth element the
\* objective at exactly the given vector.
FitAllFixedNoSearch ==
    (fpc = "returned" /\ AllFixed) =>
        /\ ~fminimized
        /\ fevals = 1
        /\ fresult.neglog = NeglogValue(<<fargs.alpha, fargs.beta, fargs.mu, fargs.sigma>>)

\* C8: the loop of _reflect ends for every candidate value: a call that is
\* inside _reflect reaches its return.
ReflectTerminates == (fpc = "reflect") ~> (fpc = "store")

\* When _reflect returns, the value lies within the bounds of its slot, and
\* the value stored for mu is the candidate itself.
ReflectedInBounds ==
    fpc = "store" =>
        IF par_names[fvariables[fj]] = "mu" THEN fcur = fvalue[fj]
        ELSE ~NumLess(fcur, ReflectLower) /\ ~NumLess(ReflectUpper, fcur)

(***************************************************************************)
(* Specifications                                                          *)
(***************************************************************************)
\* the state after import: the cache is empty, nothing was called; streams
\* are the draws np.random may hand out (z for standard_normal, r1 and r2
\* for random)
InitWith(streams) ==
    /\ data_cache = [k \in Keys |-> NoObj]
    /\ tpc = [t \in Threads |-> "idle"]
    /\ tkey = [t \in Threads |-> "cdf"]
    /\ tloaded = [t \in Threads |-> NoObj]
    /\ tcalls = [t \in Threads |-> 0]
    /\ nextObj = 1
    /\ loads = [k \in Keys |-> 0]
    /\ writes = [k \in Keys |-> 0]
    /\ returned = [k \in Keys |-> {}]
    /\ ipc = "idle"
    /\ ipoint = ilower
    /\ itap = 0
    /\ iidx = [j \in Axes |-> 0]
    /\ ioffset = 0
    /\ iresult = 0
    /\ lpc = "idle"
    /\ largs = [x |-> 0, alpha |-> 1500000, beta |-> 0, mu |-> 0, sigma |-> Micro,
                cdf |-> FALSE, par |-> 0]
    /\ lloc = 0
    /\ lidx = <<0, 0>>
    /\ ll = 0
    /\ lres = None
    /\ rstream \in streams
    /\ rpc = [c \in Calls |-> "idle"]
    /\ rargs = [c \in Calls |-> NoArgs]
    /\ rloc = [c \in Calls |-> 0]
    /\ rres = [c \in Calls |-> 0]
    /\ fpc = "idle"
    /\ fargs = NoArgsFit
    /\ f_x = <<NoneNum, NoneNum, NoneNum, NoneNum>>
    /\ fvariables = <<>>
    /\ ffixed = <<>>
    /\ ffixed_values = <<>>
    /\ fvalue = <<>>
    /\ fj = 0
    /\ fcur = NoneNum
    /\ fminimized = FALSE
    /\ fevals = 0
    /\ fresult = NoResult

Init == InitWith({[z |-> 0, r1 |-> 250000, r2 |-> 250000]})
RandomInit ==
    InitWith([z : {-Micro, 500000}, r1 : {250000, 750000}, r2 : {250000, 750000}])

SpecCache == Init /\ [][CacheNext]_vars
SpecInterp == Init /\ [][InterpNext]_vars
SpecLevy == Init /\ [][LevyNext]_vars
SpecRandom == RandomInit /\ [][RandomNext]_vars
SpecFit == Init /\ [][FitNext]_vars
\* a call that can take a step takes one: the interpreter keeps running
FairSpecFit == SpecFit /\ WF_vars(FitNext)

====
